---- MODULE Spec2Model ----
(***************************************************************************)
(* A model of node-blend's blend() operation (src/src/blend.cpp): the      *)
(* synchronous argument validation in Blend, the worker Work_Blend (the    *)
(* back-to-front decode walk, the canvas set-up, the per-layer blit, the   *)
(* tint pass and the encoder dispatch) and the completion Work_AfterBlend. *)
(*                                                                         *)
(* One call of blend() is followed from its arguments to its callback.     *)
(* The image codecs are outside blend.cpp: what a decoder reports for a    *)
(* layer (header width/height, alpha flag, whether decode() succeeds, the  *)
(* warnings and the pixel it yields) is part of the layer's input bytes.   *)
(* Option keys that no step modelled here reads (compression, encoder      *)
(* backend, the tint ranges) are left out of the options record.           *)
(***************************************************************************)
EXTENDS Integers, Sequences, FiniteSets, TLC

(***************************************************************************)
(* Bounds of the model.                                                    *)
(***************************************************************************)
\* Spec: the most layers in one call.
MaxLayers == 1
\* SpecOptions: the largest quality option.
MaxQuality == 257
\* SpecStack: the most layers in one call.
MaxStackLayers == 2
\* SpecBlit: the largest layer or canvas side, and the largest offset.
MaxBlitDim == 3
MaxBlitOff == 3
\* SpecCanvas: the largest side of a small canvas.
MaxCanvasSide == 2

(***************************************************************************)
(* Program constants.                                                      *)
(***************************************************************************)
JpegDefaultQuality == 80
JpegMaxQuality == 100
PngMaxColors == 256

(***************************************************************************)
(* C++ int: 32-bit two's complement. The model's integers are already in   *)
(* that range; sums, differences and products are wrapped into it.         *)
(***************************************************************************)
Int32Max == 2147483647
Int32Min == -2147483647 - 1

Max(a, b) == IF a >= b THEN a ELSE b

\* a + b in int.
Add32(a, b) ==
    IF a > 0 /\ b > 0 /\ a > Int32Max - b
        THEN (a + Int32Min) + (b + Int32Min)
    ELSE IF a < 0 /\ b < 0 /\ a < Int32Min - b
        THEN (a - Int32Min) + (b - Int32Min)
    ELSE a + b

\* -a in int.
Neg32(a) == IF a = Int32Min THEN Int32Min ELSE -a

\* a - b in int.
Sub32(a, b) == IF b = Int32Min THEN Add32(Add32(a, Int32Max), 1) ELSE Add32(a, -b)

(***************************************************************************)
(* C++ unsigned int: a 32-bit word, kept as its two 16-bit halves          *)
(* <<high, low>>, with the arithmetic modulo 2^32.                         *)
(***************************************************************************)
Half == 65536

\* The word of an int n (two's complement for a negative one).
U32(n) == << (n \div Half) % Half, n % Half >>

\* The int a word stands for when read as signed.
AsInt(w) == (IF w[1] >= 32768 THEN w[1] - Half ELSE w[1]) * Half + w[2]

AddU(x, y) ==
    LET lo == x[2] + y[2]
    IN  << (x[1] + y[1] + (lo \div Half)) % Half, lo % Half >>

\* Faulty variant: a subtraction that stops at 0 instead of wrapping.
SubUSaturating(x, y) ==
    IF x[1] < y[1] \/ (x[1] = y[1] /\ x[2] < y[2]) THEN <<0, 0>>
    ELSE << (x[1] - y[1] - (IF x[2] < y[2] THEN 1 ELSE 0)) % 65536,
            (x[2] - y[2]) % 65536 >>

SubU(x, y) ==
    LET lo == x[2] - y[2]
    IN  << (x[1] - y[1] + (lo \div Half)) % Half, lo % Half >>

\* The four bytes of a word, lowest first.
Bytes(w) == << w[2] % 256, w[2] \div 256, w[1] % 256, w[1] \div 256 >>

\* The word of four numbers taken as base-256 digits, lowest first, carries
\* propagated and the overflow past 32 bits dropped.
Carry(d) ==
    LET t1 == d[2] + (d[1] \div 256)
        t2 == d[3] + (t1 \div 256)
        t3 == d[4] + (t2 \div 256)
    IN  << (t3 % 256) * 256 + (t2 % 256), (t1 % 256) * 256 + (d[1] % 256) >>

MulU(x, y) ==
    LET a == Bytes(x)
        b == Bytes(y)
    IN  Carry(<< a[1] * b[1],
                 a[1] * b[2] + a[2] * b[1],
                 a[1] * b[3] + a[2] * b[2] + a[3] * b[1],
                 a[1] * b[4] + a[2] * b[3] + a[3] * b[2] + a[4] * b[1] >>)

LessU(x, y) == x[1] < y[1] \/ (x[1] = y[1] /\ x[2] < y[2])

\* x << 8 and x >> 8.
Shl8(x) == << (x[1] % 256) * 256 + (x[2] \div 256), (x[2] % 256) * 256 >>

Shr8(x) == << x[1] \div 256, (x[1] % 256) * 256 + (x[2] \div 256) >>

\* x / y, unsigned (y is not 0). The model's integers stop below 2^31: a
\* divisor at or above it goes into x at most once, and a dividend at or above
\* it is divided in two parts, 2^31 - 1 and the rest, whose remainders plus
\* the 1 left over add at most one to the quotient.
DivU(x, y) ==
    IF y[1] >= 32768
        THEN IF LessU(x, y) THEN <<0, 0>> ELSE <<0, 1>>
    ELSE LET d == AsInt(y)
         IN  IF x[1] < 32768
                 THEN U32(AsInt(x) \div d)
             ELSE LET rest == AsInt(<< x[1] - 32768, x[2] >>)
                      carry == IF (Int32Max % d) + 1 >= d - (rest % d) THEN 1 ELSE 0
                  IN  AddU(AddU(U32(Int32Max \div d), U32(rest \div d)), <<0, carry>>)

\* x | y for words.
RECURSIVE OrHalf(_, _, _)
OrHalf(a, b, n) ==
    IF n = 0 THEN 0
    ELSE (IF a % 2 = 1 \/ b % 2 = 1 THEN 1 ELSE 0) + 2 * OrHalf(a \div 2, b \div 2, n - 1)

OrU(x, y) == << OrHalf(x[1], y[1], 16), OrHalf(x[2], y[2], 16) >>

\* a * b in int.
Mul32(a, b) == AsInt(MulU(U32(a), U32(b)))

(***************************************************************************)
(* hexToUInt32Color: a string is the sequence of its characters, a hex     *)
(* digit by its value 0..15 and '#' by 16.                                 *)
(***************************************************************************)
Hash == 16

\* std::hex extraction: the digits read into an unsigned int.
RECURSIVE ParseHex(_, _)
ParseHex(digits, acc) ==
    IF digits = <<>> \/ Head(digits) > 15 THEN acc
    ELSE ParseHex(Tail(digits),
                  AddU(MulU(acc, <<0, 16>>), <<0, Head(digits)>>))

hexToUInt32Color(str) ==
    LET hex == IF str # <<>> /\ Head(str) = Hash THEN Tail(str) ELSE str
        len == Len(hex)
        c == Bytes(ParseHex(hex, <<0, 0>>))
    IN  IF len # 6 /\ len # 8 THEN <<0, 0>>
        ELSE IF len = 8
             THEN << c[1] * 256 + c[2], c[3] * 256 + c[4] >>
             ELSE << 255 * 256 + c[1], c[2] * 256 + c[3] >>

(***************************************************************************)
(* Pixels: 32-bit words, A in bits 24..31, then B, G, R.                   *)
(***************************************************************************)
\* A canvas word that malloc() returned and nothing has written yet.
Uninit == <<-1, -1>>

\* source <= 0x00FFFFFF and source >= 0xFF000000.
Transparent(word) == word[1] < 256

Opaque(word) == word[1] >= 65280

\* The value target holds after Blend_CompositePixel(target, source). A target
\* word that was never written is read only by the branches that test or blend
\* it; what they compute from it is indeterminate, and stays marked Uninit.
Blend_CompositePixel(target, source) ==
    IF Transparent(source) THEN target
    ELSE IF Opaque(source) THEN source
    ELSE IF target = Uninit THEN Uninit
    ELSE IF Transparent(target) THEN source
    ELSE LET s == Bytes(source)
             t == Bytes(target)
             a1 == <<0, s[4]>>
             r1 == <<0, s[1]>>
             g1 == <<0, s[2]>>
             b1 == <<0, s[3]>>
             a0 == <<0, t[4]>>
             r0 == MulU(<<0, t[1]>>, a0)
             g0 == MulU(<<0, t[2]>>, a0)
             b0 == MulU(<<0, t[3]>>, a0)
             a0n == SubU(Shl8(AddU(a1, a0)), MulU(a0, a1))
             r0n == DivU(AddU(MulU(SubU(Shl8(r1), r0), a1), Shl8(r0)), a0n)
             g0n == DivU(AddU(MulU(SubU(Shl8(g1), g0), a1), Shl8(g0)), a0n)
             b0n == DivU(AddU(MulU(SubU(Shl8(b1), b0), a1), Shl8(b0)), a0n)
             a0s == Shr8(a0n)
         IN  OrU(OrU(Shl8(Shl8(Shl8(a0s))), Shl8(Shl8(b0n))), OrU(Shl8(g0n), r0n))

(***************************************************************************)
(* The decoder facade, as blend.cpp uses it. A layer's encoded bytes       *)
(* determine what ImageReader::create and decode() report:                 *)
(*   width, height  the header's size (0 when the bytes are no image),     *)
(*   alpha          the image may hold non-opaque pixels,                  *)
(*   decode         "ok", "warn" (ok, with one warning) or "fail",         *)
(*   pixel          the word every pixel of the decoded surface holds.     *)
(***************************************************************************)
\* An opaque red pixel and a half-transparent blue one.
OpaquePixel == <<65280, 255>>
PartialPixel == <<32768 + 255, 0>>

HeaderMessage == "Unknown image format"
DecodeMessage == "Decoding failed"
DecodeWarning == "decoder warning"

\* The bytes of images with sides in dims; an image without the alpha flag
\* decodes to opaque pixels.
ImageBytes(dims, outcomes) ==
    { [width |-> w, height |-> h, alpha |-> a, decode |-> d,
       pixel |-> IF a THEN PartialPixel ELSE OpaquePixel] :
         w \in dims, h \in dims, a \in BOOLEAN, d \in outcomes }

\* Bytes that are no image: the reader reports a zero side and a message.
BadBytes ==
    { [width |-> w, height |-> h, alpha |-> FALSE, decode |-> "fail",
       pixel |-> OpaquePixel] : w \in {0, 1}, h \in {0, 1} }
    \ { [width |-> 1, height |-> 1, alpha |-> FALSE, decode |-> "fail",
         pixel |-> OpaquePixel] }

\* The elements of the layers array: a Buffer, a {buffer, x, y} record, or
\* anything else.
BufferElements(bytes) ==
    { [kind |-> "buffer", x |-> 0, y |-> 0, data |-> d] : d \in bytes }

RecordElements(bytes, xs, ys) ==
    { [kind |-> "record", x |-> x, y |-> y, data |-> d] :
         x \in xs, y \in ys, d \in bytes }

OtherElement ==
    [kind |-> "other", x |-> 0, y |-> 0,
     data |-> [width |-> 0, height |-> 0, alpha |-> FALSE, decode |-> "fail",
               pixel |-> OpaquePixel]]

RECURSIVE SeqsUpTo(_, _)
SeqsUpTo(S, n) ==
    IF n = 0 THEN { <<>> }
    ELSE LET shorter == SeqsUpTo(S, n - 1)
         IN  shorter \cup { Append(s, e) : s \in { t \in shorter : Len(t) = n - 1 }, e \in S }

(***************************************************************************)
(* The arguments of one call. length is the number of arguments, isArray   *)
(* whether the first is an array, second what the second is ("function",   *)
(* "object" or "other"), thirdIsFunction whether the third is a function.  *)
(* An option that is absent reads as undefined: 0 for an integer, FALSE    *)
(* for a boolean, "undefined" where a string or an object is expected.     *)
(***************************************************************************)
NoMatte == [isString |-> FALSE, str |-> <<>>]

NoOptions ==
    [quality |-> 0, format |-> "undefined", reencode |-> FALSE,
     width |-> 0, height |-> 0, matte |-> NoMatte,
     palette |-> "undefined", mode |-> "undefined", tint |-> FALSE]

Call(length, isArray, second, thirdIsFunction, layers, options) ==
    [length |-> length, isArray |-> isArray, second |-> second,
     thirdIsFunction |-> thirdIsFunction, images |-> layers, options |-> options]

\* blend(layers, callback)
Call2(layers) == Call(2, TRUE, "function", FALSE, layers, NoOptions)

\* blend(layers, options, callback)
Call3(layers, options) == Call(3, TRUE, "object", TRUE, layers, options)

\* Calls whose arguments have the wrong shape.
MalformedCalls ==
    { Call(0, FALSE, "other", FALSE, <<>>, NoOptions),
      Call(1, FALSE, "other", FALSE, <<>>, NoOptions),
      Call(1, TRUE, "other", FALSE, <<>>, NoOptions),
      Call(2, TRUE, "other", FALSE, <<>>, NoOptions),
      Call(2, TRUE, "object", FALSE, <<>>, NoOptions),
      Call(3, TRUE, "other", TRUE, <<>>, NoOptions),
      Call(3, TRUE, "object", FALSE, <<>>, NoOptions),
      Call(3, TRUE, "function", FALSE, <<>>, NoOptions) }

VARIABLES
    args,       \* the arguments of the call
    faults,     \* what fails in this run: "malloc", "encoder"
    pc,         \* "call", "rejected", "passed", "walk", "composite", "encode",
                \* "after", "done"
    thrown,     \* the message of the exception Blend threw, "" if none
    baton,      \* the BlendBaton's scalar fields
    images,     \* baton->images
    index,      \* Work_Blend: the layer the walk inspects next, 0 past the last
    alpha,      \* Work_Blend: alpha
    size,       \* Work_Blend: size
    target,     \* Work_Blend: the canvas, <<>> before malloc
    it,         \* Work_Blend: the layer the blit loop composites next
    calls,      \* the callback invocations so far
    inspected,  \* history: the layers ImageReader::create was called on
    failure     \* history: what made the worker give up, "none" if nothing

vars == <<args, faults, pc, thrown, baton, images, index, alpha, size, target,
          it, calls, inspected, failure>>

NoStream == [kind |-> "empty"]

\* The BlendBaton as constructed (blend.hpp).
BatonDefaults ==
    [quality |-> 0, format |-> "png", reencode |-> FALSE, width |-> 0,
     height |-> 0, matte |-> <<0, 0>>, palette |-> "undefined", mode |-> "octree",
     tintIdentity |-> TRUE, message |-> "", warnings |-> <<>>,
     stream |-> NoStream]

(***************************************************************************)
(* Blend: the argument checks.                                             *)
(***************************************************************************)
ArgumentError(a) ==
    IF a.length = 0 \/ ~a.isArray
        THEN "First argument must be an array of Buffers."
    ELSE IF a.length = 1
        THEN "Second argument must be a function"
    ELSE IF a.length = 2
        THEN IF a.second # "function"
                THEN "Second argument must be a function." ELSE ""
    ELSE IF a.second = "other"
        THEN "Second argument must be a an options object."
    ELSE IF ~a.thirdIsFunction
        THEN "Third argument must be a function."
    ELSE ""

\* The format and quality checks: the error, or "" and the format and quality
\* the baton keeps.
FormatQuality(o) ==
    LET q == o.quality
    IN  IF o.format = "undefined"
            THEN [err |-> "", format |-> "png", quality |-> q]
        ELSE IF o.format \in {"jpeg", "jpg"}
            THEN IF q = 0
                    THEN [err |-> "", format |-> "jpeg", quality |-> JpegDefaultQuality]
                 ELSE IF q < 0 \/ q > JpegMaxQuality
                    THEN [err |-> "JPEG quality is range 0-100.",
                          format |-> "jpeg", quality |-> q]
                 ELSE [err |-> "", format |-> "jpeg", quality |-> q]
        ELSE IF o.format = "png"
            THEN IF q = 1 \/ q > PngMaxColors
                    THEN [err |-> "PNG images must be quantized between 2 and 256 colors.",
                          format |-> "png", quality |-> q]
                 ELSE [err |-> "", format |-> "png", quality |-> q]
        ELSE [err |-> "Invalid output format.", format |-> "png", quality |-> q]

\* The options object read into the baton.
ParseOptions(o) ==
    LET fq == FormatQuality(o)
        matte == IF o.matte.isString THEN hexToUInt32Color(o.matte.str) ELSE <<0, 0>>
        reencode == o.reencode \/ (o.matte.isString /\ matte # <<0, 0>>)
    IN  [err |-> fq.err,
         baton |-> [BatonDefaults EXCEPT
                      !.quality = fq.quality,
                      !.format = fq.format,
                      !.reencode = reencode,
                      !.width = o.width,
                      !.height = o.height,
                      !.matte = matte,
                      !.palette = o.palette,
                      !.mode = IF o.mode \in {"octree", "o"} THEN "octree"
                               ELSE IF o.mode \in {"hextree", "h"} THEN "hextree"
                               ELSE BatonDefaults.mode,
                      !.tintIdentity = ~o.tint]]

\* One Image per element of the layers array.
NewImages(layers) ==
    [i \in 1..Len(layers) |->
        [x |-> layers[i].x, y |-> layers[i].y,
         width |-> 0, height |-> 0, reader |-> FALSE]]

Throw(message) ==
    /\ pc' = "rejected"
    /\ thrown' = message
    /\ UNCHANGED <<baton, images, index, alpha, size, calls>>

\* The callback's arguments when a lone Buffer is passed through by Blend.
PassedArguments(buffer) ==
    [argc |-> 2, err |-> "null", buffer |-> buffer, warnings |-> <<>>]

Blend ==
    /\ pc = "call"
    /\ LET err == ArgumentError(args)
           parsed == IF err = "" /\ args.length >= 3
                        THEN ParseOptions(args.options)
                        ELSE [err |-> err, baton |-> BatonDefaults]
           b == parsed.baton
           length == Len(args.images)
       IN  IF parsed.err # ""
               THEN Throw(parsed.err)
           ELSE IF length < 1 /\ ~b.reencode
               THEN Throw("First argument must contain at least one Buffer.")
           ELSE IF length = 1 /\ ~b.reencode /\ args.images[1].kind = "buffer"
               THEN /\ pc' = "passed"
                    /\ calls' = Append(calls, PassedArguments([kind |-> "input", layer |-> 1]))
                    /\ baton' = b
                    /\ UNCHANGED <<thrown, images, index, alpha, size>>
           ELSE IF length = 1 /\ ~b.reencode /\ args.images[1].kind # "record"
               THEN Throw("All elements must be Buffers or objects with a 'buffer' property.")
           ELSE IF ~(length >= 1 \/ (b.width > 0 /\ b.height > 0))
               THEN Throw("Without buffers, you have to specify width and height.")
           ELSE IF b.width < 0 \/ b.height < 0
               THEN Throw("Image dimensions must be greater than 0.")
           ELSE IF \E i \in 1..length : args.images[i].kind = "other"
               THEN Throw("All elements must be Buffers or objects with a 'buffer' property.")
           ELSE /\ pc' = "walk"
                /\ baton' = b
                /\ images' = NewImages(args.images)
                /\ index' = length
                /\ alpha' = TRUE
                /\ size' = 0
                /\ UNCHANGED <<thrown, calls>>
    /\ UNCHANGED <<args, faults, target, it, inspected, failure>>

(***************************************************************************)
(* Work_Blend, first loop: one iteration of the back-to-front walk.        *)
(***************************************************************************)
\* Faulty variant: a walk that goes on beneath an opaque cover.
WalkNeverBreaks == index >= 1

\* The walk's loop condition: layers are left and no opaque cover was found.
WalkContinues == index >= 1 /\ alpha

\* layer.width + image.x, as the int the code computes.
Visible(side, offset) == Add32(side, offset)

\* The canvas side after the layer was seen: set from the layer when unset.
SeededSide(side, visible) == IF side <= 0 THEN Max(0, visible) ELSE side

\* Faulty variant: a viewport test that forgets the canvas's far sides.
OutsideViewportNearSides(image, visibleWidth, visibleHeight, width, height) ==
    \/ visibleWidth <= 0
    \/ visibleHeight <= 0

\* The viewport test: the layer lies outside the canvas.
OutsideViewport(image, visibleWidth, visibleHeight, width, height) ==
    \/ visibleWidth <= 0
    \/ visibleHeight <= 0
    \/ image.x >= width
    \/ image.y >= height

\* Faulty variant: a short-circuit test with the alpha flag inverted.
ShortCircuitOnAlpha(image, layer, reencode, width, height) ==
    /\ size = 0
    /\ layer.alpha
    /\ ~reencode
    /\ image.x = 0
    /\ image.y = 0
    /\ layer.width = width
    /\ layer.height = height

\* The short-circuit test: an unblended opaque layer that is the canvas.
ShortCircuit(image, layer, reencode, width, height) ==
    /\ size = 0
    /\ ~layer.alpha
    /\ ~reencode
    /\ image.x = 0
    /\ image.y = 0
    /\ layer.width = width
    /\ layer.height = height

\* The layer hides everything beneath it.
OpaqueCover(image, layer, visibleWidth, visibleHeight, width, height) ==
    /\ ~layer.alpha
    /\ image.x <= 0 /\ visibleWidth >= width
    /\ image.y <= 0 /\ visibleHeight >= height

\* WORKER_END() with an error message.
Fail(b, message, cause) ==
    /\ baton' = [b EXCEPT !.message = message]
    /\ pc' = "after"
    /\ failure' = cause

Work_Blend_Decode ==
    /\ pc = "walk"
    /\ WalkContinues
    /\ LET image == images[index]
           layer == args.images[index].data
           visibleWidth == Visible(layer.width, image.x)
           visibleHeight == Visible(layer.height, image.y)
           width == SeededSide(baton.width, visibleWidth)
           height == SeededSide(baton.height, visibleHeight)
           seeded == [baton EXCEPT !.width = width, !.height = height]
       IN  /\ inspected' = inspected \cup {index}
           /\ IF layer.width = 0 \/ layer.height = 0
                  THEN /\ Fail(baton, HeaderMessage, "header")
                       /\ UNCHANGED <<images, index, alpha, size>>
              ELSE IF OutsideViewport(image, visibleWidth, visibleHeight, width, height)
                  THEN /\ baton' = seeded
                       /\ index' = index - 1
                       /\ UNCHANGED <<pc, images, alpha, size, failure>>
              ELSE IF ShortCircuit(image, layer, baton.reencode, width, height)
                  THEN /\ baton' = [seeded EXCEPT
                                      !.stream = [kind |-> "input", layer |-> index]]
                       /\ pc' = "after"
                       /\ UNCHANGED <<images, index, alpha, size, failure>>
              ELSE IF layer.decode = "fail"
                  THEN /\ Fail(seeded, DecodeMessage, "decode")
                       /\ UNCHANGED <<images, index, alpha, size>>
              ELSE /\ baton' = [seeded EXCEPT !.warnings =
                                  IF layer.decode = "warn"
                                      THEN Append(@, [layer |-> index - 1,
                                                      text |-> DecodeWarning])
                                      ELSE @]
                   /\ alpha' = ~OpaqueCover(image, layer, visibleWidth,
                                            visibleHeight, width, height)
                   /\ images' = [images EXCEPT ![index] =
                                   [@ EXCEPT !.width = layer.width,
                                             !.height = layer.height,
                                             !.reader = TRUE]]
                   /\ size' = size + 1
                   /\ index' = index - 1
                   /\ UNCHANGED <<pc, failure>>
    /\ UNCHANGED <<args, faults, thrown, target, it, calls>>

(***************************************************************************)
(* Work_Blend: the canvas is sized, allocated and, if alpha, filled with   *)
(* the matte.                                                              *)
(***************************************************************************)
DimensionsMessage(width, height) ==
    "Image dimensions " \o ToString(width) \o "x" \o ToString(height) \o " are invalid"

\* Faulty variant: a canvas that is filled with the matte whatever alpha is.
NewCanvasAlwaysFilled(pixels, fill, matte) == [i \in 1..pixels |-> matte]

\* The canvas after the matte loop: the matte if fill, else what malloc gave.
NewCanvas(pixels, fill, matte) ==
    [i \in 1..pixels |-> IF fill THEN matte ELSE Uninit]

\* baton->width * baton->height does not fit an int. Both sides are at least 0
\* here: Blend rejects negative options and a seeded side is max(0, ...).
ProductOverflows(width, height) ==
    width > 0 /\ height > 0 /\ width > Int32Max \div height

\* Work_Blend from line 529 on, with the value the product left in pixels.
CanvasOf(pixels) ==
    IF pixels <= 0
        THEN /\ Fail(baton, DimensionsMessage(baton.width, baton.height),
                     "dimensions")
             /\ UNCHANGED <<target, it>>
    ELSE IF "malloc" \in faults
        THEN /\ Fail(baton, "Memory allocation failed", "malloc")
             /\ UNCHANGED <<target, it>>
    ELSE /\ target' = NewCanvas(pixels, alpha, baton.matte)
         /\ it' = 1
         /\ pc' = "composite"
         /\ UNCHANGED <<baton, failure>>

\* Signed overflow of the product is undefined: the build either wraps it
\* modulo 2^32 or traps, which ends the process before any callback.
Work_Blend_Canvas ==
    /\ pc = "walk"
    /\ ~WalkContinues
    /\ \/ CanvasOf(Mul32(baton.width, baton.height))
       \/ /\ ProductOverflows(baton.width, baton.height)
          /\ pc' = "aborted"
          /\ UNCHANGED <<baton, failure, target, it>>
    /\ UNCHANGED <<args, faults, thrown, images, index, alpha, size, calls, inspected>>

(***************************************************************************)
(* Blend_Composite: the clipped rectangles and the blit.                   *)
(***************************************************************************)
\* The ints Blend_Composite computes before its loops.
BlitRect(image, canvasWidth, canvasHeight) ==
    LET sourceX == Max(0, Neg32(image.x))
        sourceY == Max(0, Neg32(image.y))
        targetX == Max(0, image.x)
        targetY == Max(0, image.y)
    IN  [sourceX |-> sourceX,
         sourceY |-> sourceY,
         sourcePos |-> Add32(Mul32(sourceY, image.width), sourceX),
         width |-> Sub32(Sub32(image.width, sourceX),
                         Max(0, Sub32(Add32(image.x, image.width), canvasWidth))),
         height |-> Sub32(Sub32(image.height, sourceY),
                          Max(0, Sub32(Add32(image.y, image.height), canvasHeight))),
         targetX |-> targetX,
         targetY |-> targetY,
         targetPos |-> Add32(Mul32(targetY, canvasWidth), targetX)]

\* The (row, column) pairs the two loops visit.
BlitCells(rect) ==
    { <<y, x>> : y \in 0..(rect.height - 1), x \in 0..(rect.width - 1) }

\* The index into the source surface and into the canvas at a cell: sourcePos
\* and targetPos advance by one row stride per row.
SourceIndex(rect, image, cell) == rect.sourcePos + cell[1] * image.width + cell[2]

TargetIndex(rect, canvasWidth, cell) == rect.targetPos + cell[1] * canvasWidth + cell[2]

\* The canvas after the layer was composited onto it; pixel is the word the
\* layer's surface holds. Canvas words are numbered from 0 in the code and
\* from 1 here.
Blend_Composite(canvas, canvasWidth, canvasHeight, image, pixel) ==
    LET rect == BlitRect(image, canvasWidth, canvasHeight)
        written == { TargetIndex(rect, canvasWidth, c) : c \in BlitCells(rect) }
    IN  [i \in DOMAIN canvas |->
            IF (i - 1) \in written
                THEN Blend_CompositePixel(canvas[i], pixel)
                ELSE canvas[i]]

Work_Blend_Composite ==
    /\ pc = "composite"
    /\ it <= Len(images)
    /\ target' = IF images[it].reader
                     THEN Blend_Composite(target, baton.width, baton.height,
                                          images[it], args.images[it].data.pixel)
                     ELSE target
    /\ it' = it + 1
    /\ UNCHANGED <<args, faults, pc, thrown, baton, images, index, alpha, size,
                   calls, inspected, failure>>

(***************************************************************************)
(* Work_Blend: the tint pass, Blend_Encode and free().                     *)
(***************************************************************************)
\* Faulty variant: a dispatch that looks at the palette before the format.
EncoderPaletteFirst(b, hasAlpha) ==
    IF b.palette = "valid" THEN "png8_pal"
    ELSE IF b.format = "jpeg" THEN "jpeg"
    ELSE IF b.quality > 0
        THEN IF hasAlpha /\ b.mode = "hextree" THEN "png8_hex" ELSE "png8_oct"
    ELSE "png"

\* The encoder Blend_Encode dispatches to.
Encoder(b, hasAlpha) ==
    IF b.format = "jpeg" THEN "jpeg"
    ELSE IF b.palette = "valid" THEN "png8_pal"
    ELSE IF b.quality > 0
        THEN IF hasAlpha /\ b.mode = "hextree" THEN "png8_hex" ELSE "png8_oct"
    ELSE "png"

\* What the stream holds once the encoder returned: the encoder, its quality
\* argument (jpeg and the quantizers take one), whether it was told to keep
\* alpha, and the image it was given (the canvas, tinted or not).
Encoded(b, hasAlpha, canvas) ==
    LET encoder == Encoder(b, hasAlpha)
    IN  [kind |-> encoder,
         quality |-> IF encoder = "jpeg" /\ b.quality = 0 THEN JpegDefaultQuality
                     ELSE IF encoder \in {"jpeg", "png8_hex", "png8_oct"} THEN b.quality
                     ELSE 0,
         alpha |-> hasAlpha,
         tinted |-> ~b.tintIdentity,
         image |-> canvas]

\* The baton after Blend_Encode: an exception leaves what was written so far
\* in the stream and its what() in message.
Blend_Encode(b, hasAlpha, canvas) ==
    IF "encoder" \in faults
        THEN [b EXCEPT !.message = "Encoder exception",
                       !.stream = [kind |-> "partial"]]
        ELSE [b EXCEPT !.stream = Encoded(b, hasAlpha, canvas),
                       !.quality = IF b.format = "jpeg" /\ b.quality = 0
                                       THEN JpegDefaultQuality ELSE b.quality]

Work_Blend_Encode ==
    /\ pc = "composite"
    /\ it > Len(images)
    /\ baton' = Blend_Encode(baton, alpha, target)
    /\ failure' = IF "encoder" \in faults THEN "encoder" ELSE "none"
    /\ target' = <<>>
    /\ pc' = "after"
    /\ UNCHANGED <<args, faults, thrown, images, index, alpha, size, it, calls,
                   inspected>>

Work_Blend ==
    \/ Work_Blend_Decode
    \/ Work_Blend_Canvas
    \/ Work_Blend_Composite
    \/ Work_Blend_Encode

(***************************************************************************)
(* Work_AfterBlend: the callback.                                          *)
(***************************************************************************)
NoBuffer == [kind |-> "undefined"]

\* Faulty variant: a completion that always takes the three-argument form.
CallbackArgumentsThree(b) ==
    [argc |-> 3, err |-> IF b.message = "" THEN "null" ELSE b.message,
     buffer |-> b.stream, warnings |-> b.warnings]

\* The arguments Work_AfterBlend calls the callback with.
CallbackArguments(b) ==
    IF b.message = ""
        THEN [argc |-> 3, err |-> "null", buffer |-> b.stream, warnings |-> b.warnings]
        ELSE [argc |-> 1, err |-> b.message, buffer |-> NoBuffer, warnings |-> <<>>]

\* Faulty variant: a completion that stays silent when the job failed.
Work_AfterBlendSilent ==
    /\ pc = "after"
    /\ calls' = IF baton.message = "" THEN Append(calls, CallbackArguments(baton))
                                      ELSE calls
    /\ pc' = "done"
    /\ UNCHANGED <<args, faults, thrown, baton, images, index, alpha, size, target,
                   it, inspected, failure>>

Work_AfterBlend ==
    /\ pc = "after"
    /\ calls' = Append(calls, CallbackArguments(baton))
    /\ pc' = "done"
    /\ UNCHANGED <<args, faults, thrown, baton, images, index, alpha, size, target,
                   it, inspected, failure>>

Next == Blend \/ Work_Blend \/ Work_AfterBlend

\* The state before Blend runs on a call drawn from calls, in a run where
\* the faults in one of faultSets happen.
InitWith(callSet, faultSets) ==
    /\ args \in callSet
    /\ faults \in faultSets
    /\ pc = "call"
    /\ thrown = ""
    /\ baton = BatonDefaults
    /\ images = <<>>
    /\ index = 0
    /\ alpha = TRUE
    /\ size = 0
    /\ target = <<>>
    /\ it = 0
    /\ calls = <<>>
    /\ inspected = {}
    /\ failure = "none"

(***************************************************************************)
(* Specifications. All run the same program; they differ in the calls      *)
(* they draw.                                                              *)
(***************************************************************************)
Red == [isString |-> TRUE, str |-> <<Hash, 15, 15, 0, 0, 0, 0>>]

AllFaults == SUBSET {"malloc", "encoder"}

\* Spec: every shape of call and every way a job ends. Layers are one pixel
\* large and sit at 0 or -1, on a canvas of up to two pixels, so that a layer
\* can match the canvas, fill a part of it or lie outside it.
LifecycleBytes == ImageBytes({1}, {"ok", "warn", "fail"}) \cup BadBytes

LifecycleLayers ==
    SeqsUpTo(BufferElements(LifecycleBytes)
             \cup RecordElements(LifecycleBytes, {-1, 0}, {0})
             \cup {OtherElement}, MaxLayers)

LifecycleOptions ==
    { [NoOptions EXCEPT !.reencode = r, !.width = w, !.height = h] :
        r \in BOOLEAN, w \in {-1, 0, 1, 2}, h \in {0, 1} }

LifecycleCalls ==
    MalformedCalls
    \cup { Call2(l) : l \in LifecycleLayers }
    \cup { Call3(l, o) : l \in LifecycleLayers, o \in LifecycleOptions }

Init == InitWith(LifecycleCalls, AllFaults)

Spec == Init /\ [][Next]_vars

\* FairSpec: the calls of one layer at most and stacks of two opaque layers,
\* with the scheduling the program runs under: Blend returns, the worker runs
\* a queued job to its end and the completion then runs on the caller's
\* thread, so a step that is enabled is eventually taken.
FairLayers ==
    SeqsUpTo(BufferElements(LifecycleBytes)
             \cup RecordElements(LifecycleBytes, {-1, 0}, {0})
             \cup {OtherElement}, 1)
    \cup { <<a, b>> : a, b \in RecordElements({ d \in ImageBytes({1}, {"ok"}) : ~d.alpha }, {0}, {0}) }

FairCalls ==
    MalformedCalls
    \cup { Call2(l) : l \in FairLayers }
    \cup { Call3(l, o) : l \in FairLayers, o \in LifecycleOptions }

FairInit == InitWith(FairCalls, AllFaults)

FairSpec ==
    /\ FairInit /\ [][Next]_vars
    /\ WF_vars(Blend) /\ WF_vars(Work_Blend) /\ WF_vars(Work_AfterBlend)

\* SpecOptions: every format with every quality from -1 to MaxQuality.
OptionsBytes == ImageBytes({1}, {"ok"})

OptionsLayers ==
    { <<>> }
    \cup { <<e>> : e \in BufferElements({ b \in OptionsBytes : ~b.alpha })
                         \cup RecordElements(OptionsBytes, {0}, {0}) }

OptionsOptions ==
    { [NoOptions EXCEPT !.quality = q, !.format = f, !.reencode = r,
                        !.palette = p, !.mode = m] :
        q \in -1..MaxQuality,
        f \in {"undefined", "png", "jpeg", "jpg", "gif"},
        r \in BOOLEAN,
        p \in {"undefined", "valid"},
        m \in {"undefined", "h"} }

OptionsCalls ==
    { Call2(l) : l \in OptionsLayers }
    \cup { Call3(l, o) : l \in OptionsLayers, o \in OptionsOptions }

InitOptions == InitWith(OptionsCalls, {{}})

SpecOptions == InitOptions /\ [][Next]_vars

\* SpecStack: stacks of up to MaxStackLayers layers of one pixel, each placed at
\* -1, 0 or 1 either way (so that canvases of one and two pixels a side arise,
\* covered or not), or bytes that are no image; the canvas given or left to
\* the layers.
StackLayers ==
    SeqsUpTo(RecordElements(ImageBytes({1}, {"ok"}), {-1, 0, 1}, {-1, 0, 1})
             \cup RecordElements({ b \in BadBytes : b.width = 0 /\ b.height = 0 },
                                 {0}, {0}),
             MaxStackLayers)

StackOptions ==
    { [NoOptions EXCEPT !.reencode = r, !.width = w, !.height = w, !.matte = m] :
        r \in BOOLEAN, w \in {0, 1}, m \in {NoMatte, Red} }

StackCalls == { Call3(l, o) : l \in StackLayers, o \in StackOptions }

InitStack == InitWith(StackCalls, {{}})

SpecStack == InitStack /\ [][Next]_vars

\* SpecBlit: one layer of every size up to MaxBlitDim at every offset up to
\* MaxBlitOff either way, on a canvas of every size (0: taken from the layer).
BlitLayers ==
    { <<e>> : e \in RecordElements(ImageBytes(1..MaxBlitDim, {"ok"}),
                                   (-MaxBlitOff)..MaxBlitOff,
                                   (-MaxBlitOff)..MaxBlitOff) }

BlitOptions ==
    { [NoOptions EXCEPT !.reencode = TRUE, !.width = w, !.height = h] :
        w \in 0..MaxBlitDim, h \in 0..MaxBlitDim }

BlitCalls == { Call3(l, o) : l \in BlitLayers, o \in BlitOptions }

InitBlit == InitWith(BlitCalls, {{}})

SpecBlit == InitBlit /\ [][Next]_vars

\* SpecPixel: one half-transparent layer of one pixel S on a canvas filled
\* with the matte T, S and T drawn from the words whose alpha is one of
\* PixelAlphas and whose colour channels are each one of PixelColours.
PixelAlphas == {0, 1, 127, 128, 254, 255}
PixelColours == {0, 128, 255}

\* The ARGB word with these channels: A in bits 24..31, then B, G, R.
PixelWord(r, g, b, a) == << a * 256 + b, g * 256 + r >>

\* The matte option "#RRGGBBAA" for these channels.
HexColor(r, g, b, a) ==
    [isString |-> TRUE,
     str |-> << Hash, r \div 16, r % 16, g \div 16, g % 16,
                b \div 16, b % 16, a \div 16, a % 16 >>]

\* The bytes of one-pixel images that decode to the given words.
PixelBytes(words) ==
    { [width |-> 1, height |-> 1, alpha |-> TRUE, decode |-> "ok", pixel |-> w] :
        w \in words }

PixelLayers ==
    { <<e>> : e \in RecordElements(
                PixelBytes({ PixelWord(r, g, b, a) :
                               r \in PixelColours, g \in PixelColours,
                               b \in PixelColours, a \in PixelAlphas }),
                {0}, {0}) }

PixelOptions ==
    { [NoOptions EXCEPT !.reencode = TRUE, !.matte = HexColor(r, g, b, a)] :
        r \in PixelColours, g \in PixelColours, b \in PixelColours,
        a \in PixelAlphas }

PixelCalls == { Call3(l, o) : l \in PixelLayers, o \in PixelOptions }

InitPixel == InitWith(PixelCalls, {{}})

SpecPixel == InitPixel /\ [][Next]_vars

\* SpecCanvas: canvases of up to MaxCanvasSide pixels a side (0: left to
\* the layer) and canvases whose sides are valid ints while their product is
\* not: 3 x 1431655766 = 2^32 + 2, 2 x 1431655766 and 65536 x 65536 = 2^32;
\* no layer, a layer at the origin, or one that derives the 3 x 1431655766
\* canvas from its offsets.
WideSide == 1431655766

CanvasSizes ==
    { <<w, h>> : w \in 0..MaxCanvasSide, h \in 0..MaxCanvasSide }
    \cup { <<3, WideSide>>, <<WideSide, 3>>, <<2, WideSide>>, <<65536, 65536>> }

\* No layer, or a layer of one pixel at the origin.
CanvasLayers ==
    { <<>> }
    \cup { <<e>> : e \in RecordElements(ImageBytes({1}, {"ok"}), {0}, {0}) }

\* A layer of one pixel at (2, WideSide - 1): its visible size is 3 x WideSide.
FarLayers ==
    { <<e>> : e \in RecordElements(ImageBytes({1}, {"ok"}), {2}, {WideSide - 1}) }

CanvasOptions ==
    { [NoOptions EXCEPT !.reencode = TRUE, !.width = c[1], !.height = c[2]] :
        c \in CanvasSizes }

CanvasCalls ==
    { Call3(l, o) : l \in CanvasLayers, o \in CanvasOptions }
    \cup { Call3(l, [NoOptions EXCEPT !.reencode = r]) :
             l \in FarLayers, r \in BOOLEAN }

InitCanvas == InitWith(CanvasCalls, AllFaults)

SpecCanvas == InitCanvas /\ [][Next]_vars

(***************************************************************************)
(* Properties.                                                             *)
(***************************************************************************)
\* The job ended with the callback reporting success.
Succeeded == Len(calls) = 1 /\ calls[1].err = "null"

\* The bytes of layer a are an image: its header reports a size.
ValidImage(a) == args.images[a].data.width > 0 /\ args.images[a].data.height > 0

\* Layer a is opaque and covers the canvas the job has: x <= 0, y <= 0,
\* x + width >= canvas width, y + height >= canvas height.
OpaqueCoverOfCanvas(a) ==
    LET e == args.images[a]
    IN  /\ ValidImage(a)
        /\ ~e.data.alpha
        /\ e.x <= 0 /\ e.y <= 0
        /\ e.x + e.data.width >= baton.width
        /\ e.y + e.data.height >= baton.height

\* A part of layer a lies to the right of and below the canvas origin.
ReachesCanvas(a) ==
    LET e == args.images[a]
    IN  e.x + e.data.width > 0 /\ e.y + e.data.height > 0

\* Layer b was left alone: its header was not read and it was not decoded (the
\* blit loop skips a layer that was not decoded).
Untouched(b) == b \notin inspected /\ ~images[b].reader

\* C1 as stated: in a finished job, every layer beneath an opaque layer that
\* covers the whole canvas (x <= 0, y <= 0, x + width >= canvas width,
\* y + height >= canvas height) was left alone: header not read, not decoded,
\* not composited, so that the outcome cannot depend on it.
C1_OpaqueCoverHidesLower ==
    pc = "done" =>
        \A a \in 1..Len(args.images) : \A b \in 1..(a - 1) :
            OpaqueCoverOfCanvas(a) => Untouched(b)

\* C1, amended: the same for an opaque covering layer that reaches into the
\* canvas (x + width > 0 and y + height > 0). A layer that does not is dropped
\* by the viewport test before the cover test and the walk goes on beneath it.
C1_VisibleOpaqueCoverHidesLower ==
    pc = "done" =>
        \A a \in 1..Len(args.images) : \A b \in 1..(a - 1) :
            (OpaqueCoverOfCanvas(a) /\ ReachesCanvas(a)) => Untouched(b)

\* A job succeeded whose decoded opaque cover lies above bytes that are no
\* image.
C1_Witness ==
    /\ pc = "done"
    /\ Succeeded
    /\ \E a \in 1..Len(args.images) : \E b \in 1..(a - 1) :
          /\ OpaqueCoverOfCanvas(a)
          /\ ReachesCanvas(a)
          /\ images[a].reader
          /\ ~ValidImage(b)

\* The call's single layer is an opaque image at (0,0) of the canvas's size
\* (a side of the canvas that is left unset is taken from the layer).
LoneOpaqueCanvasLayer ==
    /\ Len(args.images) = 1
    /\ args.images[1].kind \in {"buffer", "record"}
    /\ ValidImage(1)
    /\ LET e == args.images[1]
       IN  /\ ~e.data.alpha
           /\ e.x = 0 /\ e.y = 0
           /\ args.options.width \in {0, e.data.width}
           /\ args.options.height \in {0, e.data.height}

\* C2: a call with reencode false whose single layer is opaque, at (0,0) and of
\* the canvas's size ends with the callback given null and that layer's input
\* bytes; the layer was not decoded, no canvas was made and no encoder ran,
\* whether the layer was a raw buffer or a record.
C2_LoneOpaqueLayerPassesThrough ==
    (pc \in {"passed", "done"} /\ ~baton.reencode /\ LoneOpaqueCanvasLayer) =>
        /\ Succeeded
        /\ calls[1].buffer = [kind |-> "input", layer |-> 1]
        /\ target = <<>>
        /\ it = 0
        /\ \A i \in DOMAIN images : ~images[i].reader

\* The worker's short-circuit handed a record's bytes to the callback.
C2_Witness ==
    /\ pc = "done"
    /\ ~baton.reencode
    /\ LoneOpaqueCanvasLayer
    /\ args.images[1].kind = "record"
    /\ inspected = {1}
    /\ calls[1].buffer = [kind |-> "input", layer |-> 1]

\* C3: a call is either rejected by Blend with an argument error, and the
\* callback is then never invoked, or the callback is invoked exactly once:
\* never twice, and a job that was scheduled on the worker always gets to its
\* one callback, whichever way the worker ends.
C3_ExactlyOneOutcome ==
    /\ [](/\ Len(calls) <= 1
          /\ pc = "rejected" => (thrown # "" /\ calls = <<>>)
          /\ Len(calls) = 1 => (thrown = "" /\ pc \in {"passed", "done"}))
    /\ <>(pc = "rejected" \/ Len(calls) = 1)
    /\ (pc \in {"walk", "composite", "after"}) ~> (pc = "done" /\ Len(calls) = 1)

\* A job whose canvas could not be allocated ended with its one callback.
C3_Witness ==
    /\ pc = "done"
    /\ failure = "malloc"
    /\ Len(calls) = 1
    /\ thrown = ""

\* C4 as stated: every callback that reports success, the pass-through of a
\* single layer included, is given three arguments: null, the output buffer
\* and the array of warnings.
C4_SuccessHasThreeArguments ==
    \A i \in 1..Len(calls) : calls[i].err = "null" => calls[i].argc = 3

\* C5: once a scheduled job has failed (a header without a size, a failed
\* decode, a canvas of no pixels, a failed allocation, an encoder exception),
\* no callback reports success, and the job ends with one callback whose sole
\* argument is the error: no buffer, no warnings.
C5_FailureIsErrorOnly ==
    failure # "none" =>
        /\ \A i \in 1..Len(calls) : calls[i].err # "null"
        /\ pc = "done" =>
              /\ Len(calls) = 1
              /\ calls[1].argc = 1
              /\ calls[1].err = baton.message
              /\ calls[1].buffer = NoBuffer
              /\ calls[1].warnings = <<>>

\* An encoder exception left a partial stream and a collected warning behind,
\* and the callback got the error alone.
C5_Witness ==
    /\ pc = "done"
    /\ failure = "encoder"
    /\ baton.stream.kind = "partial"
    /\ baton.warnings # <<>>
    /\ calls[1].argc = 1

\* The call names the JPEG format.
JpegCall == args.length = 3 /\ args.options.format \in {"jpeg", "jpg"}

\* The quality a JPEG job encodes at: the option, 0 replaced by the default.
JobQuality ==
    IF args.options.quality = 0 THEN JpegDefaultQuality ELSE args.options.quality

\* The callback's buffer is the JPEG encoder's output for a whole canvas at
\* the job's quality.
JpegOfCanvas(buffer) ==
    /\ buffer.kind = "jpeg"
    /\ buffer.quality = JobQuality
    /\ Len(buffer.image) = baton.width * baton.height

\* C6 as stated: a successful job with format "jpeg" or "jpg" delivers the JPEG
\* encoder's result for the canvas at the job's quality (0 replaced by 80),
\* never another encoder's output and never unencoded input bytes.
C6_JpegJobEmitsJpeg ==
    (JpegCall /\ Succeeded) => JpegOfCanvas(calls[1].buffer)

\* C6, amended: a successful job with format "jpeg" or "jpg" that runs with
\* reencode in effect delivers the JPEG encoder's result for the canvas at the
\* job's quality (0 replaced by 80); with reencode false it delivers that or,
\* where the pass-through applies, a layer's input bytes as they came; no
\* other encoder's output is delivered.
C6_JpegJobEmitsJpegOrInput ==
    (JpegCall /\ Succeeded) =>
        \/ JpegOfCanvas(calls[1].buffer)
        \/ ~baton.reencode /\ calls[1].buffer.kind = "input"

\* A JPEG job with quality 0 and a palette was encoded as JPEG at quality 80.
C6_Witness ==
    /\ JpegCall
    /\ Succeeded
    /\ args.options.quality = 0
    /\ args.options.palette = "valid"
    /\ JpegOfCanvas(calls[1].buffer)
    /\ calls[1].buffer.quality = 80

\* C7 as stated: once Blend has run on a call with options, a PNG job (format
\* "png" or no format option) with quality 1 or above 256 was rejected and no
\* work was scheduled, with the PNG quantization error where that is the
\* call's only fault; a JPEG job with a quality outside 0..100 was rejected
\* too.
C7_BadQualityIsRejected ==
    (pc # "call" /\ args.length = 3 /\ ArgumentError(args) = "") =>
        LET q == args.options.quality
        IN  /\ (/\ args.options.format \in {"png", "undefined"}
                /\ (q = 1 \/ q > PngMaxColors))
                  => /\ pc = "rejected"
                     /\ calls = <<>>
                     /\ Len(args.images) = 1 =>
                           thrown = "PNG images must be quantized between 2 and 256 colors."
            /\ (/\ args.options.format \in {"jpeg", "jpg"}
                /\ (q < 0 \/ q > JpegMaxQuality))
                  => pc = "rejected" /\ calls = <<>>

\* The layers that were not dropped: the ones the walk decoded.
Survivors == { i \in DOMAIN images : images[i].reader }

\* The topmost of a set of layers: the last of them in the array.
Topmost(layers) == CHOOSE i \in layers : \A j \in layers : j <= i

\* C8 as stated: when the caller left width and height unset, the canvas that
\* is composited onto has the width and height of one layer, the topmost that
\* was not dropped: width = layer.width + x and height = layer.height + y.
C8_CanvasFromTopmostSurvivor ==
    (pc = "composite" /\ args.options.width = 0 /\ args.options.height = 0) =>
        /\ Survivors # {}
        /\ LET e == args.images[Topmost(Survivors)]
           IN  /\ baton.width = e.data.width + e.x
               /\ baton.height = e.data.height + e.y

\* The canvas was allocated and nothing was composited yet.
CanvasInitialised == pc = "composite" /\ it = 1

\* Every pixel of the canvas holds the matte.
MatteWritten == \A i \in DOMAIN target : target[i] = baton.matte

\* C9 as stated: when the canvas has been initialised, every pixel holds the
\* matte if and only if a layer of the final stack has its alpha flag set.
C9_MatteIffAlphaLayer ==
    CanvasInitialised =>
        (MatteWritten <=> \E i \in Survivors : args.images[i].data.alpha)

\* C9, amended: when the canvas has been initialised, every pixel holds the
\* matte if and only if no layer of the final stack is opaque and covers the
\* whole canvas.
C9_MatteIffNoOpaqueCover ==
    CanvasInitialised =>
        (MatteWritten <=> ~\E i \in Survivors : OpaqueCoverOfCanvas(i))

\* The matte was written under a stack of opaque layers only, none of which
\* covers the canvas.
C9_Witness ==
    /\ CanvasInitialised
    /\ MatteWritten
    /\ baton.matte # <<0, 0>>
    /\ Survivors # {}
    /\ \A i \in Survivors : ~args.images[i].data.alpha

\* C10: for every layer that is composited, the blit's width and height are
\* not negative, its source origin is (max(0,-x), max(0,-y)) and its target
\* origin (max(0,x), max(0,y)), a row of the blit ends inside the row of the
\* source and of the canvas it began in, and every index read or written is
\* the one of its row and column and lies inside the source and the canvas.
C10_BlitStaysInside ==
    pc = "composite" =>
        \A i \in Survivors :
            LET image == images[i]
                rect == BlitRect(image, baton.width, baton.height)
            IN  /\ rect.width >= 0 /\ rect.height >= 0
                /\ rect.sourceX = Max(0, -image.x) /\ rect.sourceY = Max(0, -image.y)
                /\ rect.targetX = Max(0, image.x) /\ rect.targetY = Max(0, image.y)
                /\ rect.sourceX + rect.width <= image.width
                /\ rect.targetX + rect.width <= baton.width
                /\ \A c \in BlitCells(rect) :
                      /\ SourceIndex(rect, image, c)
                            = (rect.sourceY + c[1]) * image.width + rect.sourceX + c[2]
                      /\ TargetIndex(rect, baton.width, c)
                            = (rect.targetY + c[1]) * baton.width + rect.targetX + c[2]
                      /\ SourceIndex(rect, image, c) \in 0..(image.width * image.height - 1)
                      /\ TargetIndex(rect, baton.width, c) \in 0..(baton.width * baton.height - 1)

\* A layer was composited that begins left of the canvas, ends right of it and
\* is cut at the canvas's lower edge.
C10_Witness ==
    /\ pc = "composite"
    /\ it = 2
    /\ images[1].reader
    /\ images[1].x < 0
    /\ images[1].x + images[1].width > baton.width
    /\ images[1].y > 0
    /\ images[1].y + images[1].height > baton.height

\* The composite of section 4.3.4 in unbounded integers, on pixels given as
\* their channels <<r, g, b, a>>: t is the target, s the source.
CompositeOver(t, s) ==
    IF s[4] = 0 THEN t
    ELSE IF s[4] = 255 \/ t[4] = 0 THEN s
    ELSE LET a1 == s[4]
             a0 == t[4]
             a0n == 256 * (a1 + a0) - a0 * a1
             Channel(c1, c0) == ((256 * c1 - c0 * a0) * a1 + 256 * c0 * a0) \div a0n
         IN  << Channel(s[1], t[1]), Channel(s[2], t[2]), Channel(s[3], t[3]),
                a0n \div 256 >>

\* The first layer has been composited onto a canvas that held the matte.
FirstLayerComposited ==
    /\ pc = "composite"
    /\ it = 2
    /\ images[1].reader
    /\ alpha

\* C11: the word Blend_CompositePixel leaves in the canvas, computed in 32-bit
\* unsigned arithmetic, has the channels that section 4.3.4 gives in unbounded
\* integers: the target's when the source's alpha is 0, the source's when its
\* alpha is 255 or the target's is 0, and else ((256*c1 - c0*a0)*a1 +
\* 256*c0*a0) div a0' per colour and a0' div 256 for alpha, with a0' =
\* 256*(a1+a0) - a0*a1; every channel is in 0..255.
C11_CompositePixelIsExact ==
    FirstLayerComposited =>
        LET T == Bytes(baton.matte)
            S == Bytes(args.images[1].data.pixel)
        IN  /\ target[1] = Blend_CompositePixel(baton.matte, args.images[1].data.pixel)
            /\ Bytes(target[1]) = CompositeOver(T, S)
            /\ \A c \in 1..4 : CompositeOver(T, S)[c] \in 0..255

\* Two half-transparent pixels were blended and (r1 << 8) - r0 wrapped below
\* zero on the way.
C11_Witness ==
    /\ FirstLayerComposited
    /\ LET T == Bytes(baton.matte)
           S == Bytes(args.images[1].data.pixel)
       IN  /\ S[4] \in 1..254
           /\ T[4] \in 1..255
           /\ 256 * S[1] < T[1] * T[4]
           /\ Bytes(target[1]) = CompositeOver(T, S)

\* The canvas's sides are positive and their product is an int.
CanvasFits ==
    /\ baton.width > 0
    /\ baton.height > 0
    /\ baton.width <= Int32Max \div baton.height

\* C12 as stated: when compositing begins, the canvas's width and height are
\* positive and the allocated canvas holds width x height pixels, the product
\* taken in the integers; a job whose sides do not allow this has ended with
\* "Image dimensions WxH are invalid" or "Memory allocation failed" and no
\* canvas.
C12_CanvasHoldsEveryPixel ==
    /\ pc # "aborted"
    /\ pc = "composite" =>
          /\ CanvasFits
          /\ Len(target) = baton.width * baton.height
    /\ (pc \in {"after", "done"} /\ index = 0 /\ ~CanvasFits) =>
          /\ target = <<>>
          /\ baton.message \in {DimensionsMessage(baton.width, baton.height),
                                "Memory allocation failed"}

\* The layer the blit loop composites next.
NextComposited == pc = "composite" /\ it <= Len(images) /\ images[it].reader

\* The blit loop is over: the tint pass and the encoder read the canvas next.
CanvasComplete == pc = "composite" /\ it > Len(images)

\* C13 as stated: no canvas pixel is read before it holds a defined value.
\* The blend branch of Blend_CompositePixel, taken for a source pixel that is
\* neither transparent nor opaque, reads a canvas word that was written
\* before; and when the blit loop is over, every pixel of the width x height
\* image that the tint pass and the encoder read is a word of the canvas and
\* was written, by the matte fill or by a layer.
C13_NoUninitialisedPixelIsRead ==
    /\ NextComposited =>
          LET rect == BlitRect(images[it], baton.width, baton.height)
              source == args.images[it].data.pixel
          IN  (~Transparent(source) /\ ~Opaque(source)) =>
                  \A c \in BlitCells(rect) :
                      /\ TargetIndex(rect, baton.width, c) + 1 \in DOMAIN target
                      /\ target[TargetIndex(rect, baton.width, c) + 1] # Uninit
    /\ CanvasComplete =>
          /\ CanvasFits
          /\ Len(target) = baton.width * baton.height
          /\ \A i \in DOMAIN target : target[i] # Uninit

====
